---- MODULE Spec2Model ----
(***************************************************************************)
(* Websocket heartbeat of the API: HeartbeatHandler (handlers/heartbeat.ts)*)
(* and the message utilities it uses (utils/message.ts).                   *)
(*                                                                         *)
(* The specifications of the module:                                       *)
(*   Spec      - the HeartbeatHandler driven by the event emitter and the  *)
(*               Node timers (connect / error / close / message events,    *)
(*               interval ticks, sweep timeouts); FairSpec adds that an    *)
(*               armed timeout eventually fires;                           *)
(*   SpecSend  - one safeSend call chain on a socket whose buffer and      *)
(*               readyState are changed by the environment;                *)
(*   SpecCodec - fmtMessage applied to bounded inputs.                     *)
(*                                                                         *)
(* JavaScript strings are sequences of one-character strings, JavaScript   *)
(* objects are insertion-ordered sequences of <<key, value>> pairs and the *)
(* JSON text is a sequence of tokens.                                      *)
(***************************************************************************)
EXTENDS Integers, Sequences, FiniteSets, TLC

\* ------------------------------------------------------------------ bounds
MaxConns == 2
MaxSweeps == 2
MaxPolls == 3
MaxBuffer == 2

Conns == 1..MaxConns

\* ---------------------------------------------------------------- strings
\* the JavaScript value undefined (never equal to a string of characters)
Undefined == <<"undefined">>

Str_ping == <<"p", "i", "n", "g">>
Str_pong == <<"p", "o", "n", "g">>
Str_PING == <<"P", "I", "N", "G">>
Str_paddedPing == <<" ", "P", "i", "N", "g", " ">>
Str_pings == <<"p", "i", "n", "g", "s">>
Str_abc == <<"a", "b", "c">>
Str_42 == <<"4", "2">>
Str_empty == <<>>

WhiteSpace == {" ", "\t", "\n"}

\* String.prototype.toUpperCase on one character
ToUpperChar(ch) ==
  CASE ch = "p" -> "P"
    [] ch = "i" -> "I"
    [] ch = "n" -> "N"
    [] ch = "g" -> "G"
    [] ch = "o" -> "O"
    [] ch = "s" -> "S"
    [] ch = "a" -> "A"
    [] ch = "b" -> "B"
    [] ch = "c" -> "C"
    [] OTHER -> ch

ToUpperCase(str) == [i \in 1..Len(str) |-> ToUpperChar(str[i])]

RECURSIVE TrimStart(_)
TrimStart(str) ==
  IF str # <<>> /\ Head(str) \in WhiteSpace THEN TrimStart(Tail(str)) ELSE str

RECURSIVE TrimEnd(_)
TrimEnd(str) ==
  IF str # <<>> /\ str[Len(str)] \in WhiteSpace
    THEN TrimEnd(SubSeq(str, 1, Len(str) - 1))
    ELSE str

\* String.prototype.trim
Trim(str) == TrimEnd(TrimStart(str))

\* variant of trimUpper: .trim() is left out
trimUpperNoTrim(str) == ToUpperCase(IF str = Undefined THEN Str_empty ELSE str)

\* (str ?? '').trim().toUpperCase()
trimUpper(str) == ToUpperCase(Trim(IF str = Undefined THEN Str_empty ELSE str))

\* ---------------------------------------------------------------- objects
EmptyObject == <<>>

ObjKeys(obj) == {obj[i][1] : i \in 1..Len(obj)}

\* obj[key]; a missing property reads as undefined
ObjGet(obj, key) ==
  IF key \in ObjKeys(obj)
    THEN LET i == CHOOSE j \in 1..Len(obj) : obj[j][1] = key IN obj[i][2]
    ELSE Undefined

\* obj[key] = value: an existing property keeps its position
ObjSet(obj, key, value) ==
  IF key \in ObjKeys(obj)
    THEN [i \in 1..Len(obj) |-> IF obj[i][1] = key THEN <<key, value>> ELSE obj[i]]
    ELSE Append(obj, <<key, value>>)

\* { ...target, ...source }
RECURSIVE ObjSpread(_, _)
ObjSpread(target, source) ==
  IF source = <<>> THEN target
  ELSE ObjSpread(ObjSet(target, Head(source)[1], Head(source)[2]), Tail(source))

\* JavaScript truthiness of a string-or-undefined value
Truthy(v) == v # Undefined /\ v # Str_empty

\* ------------------------------------------------------------------- JSON
TokOpen == <<"{">>
TokClose == <<"}">>
TokColon == <<":">>
TokComma == <<",">>
TokKey(key) == <<"key", key>>
TokStr(value) == <<"str">> \o value

\* the properties JSON.stringify keeps: those whose value is not undefined
RECURSIVE JsonEntries(_)
JsonEntries(obj) ==
  IF obj = <<>> THEN <<>>
  ELSE IF Head(obj)[2] = Undefined THEN JsonEntries(Tail(obj))
  ELSE <<Head(obj)>> \o JsonEntries(Tail(obj))

RECURSIVE JsonMembers(_)
JsonMembers(entries) ==
  IF entries = <<>> THEN <<>>
  ELSE <<TokKey(Head(entries)[1]), TokColon, TokStr(Head(entries)[2])>>
         \o (IF Tail(entries) = <<>> THEN <<>> ELSE <<TokComma>>)
         \o JsonMembers(Tail(entries))

\* JSON.stringify of an object whose values are strings
JsonStringify(obj) == <<TokOpen>> \o JsonMembers(JsonEntries(obj)) \o <<TokClose>>

\* JSON.parse of such a text: members are read in groups of four tokens
RECURSIVE JsonParseMembers(_, _)
JsonParseMembers(tokens, obj) ==
  IF Len(tokens) < 3 THEN obj
  ELSE JsonParseMembers(
         SubSeq(tokens, 5, Len(tokens)),
         ObjSet(obj, tokens[1][2], Tail(tokens[3])))

JsonParse(text) == JsonParseMembers(SubSeq(text, 2, Len(text) - 1), EmptyObject)

\* variant of fmtMessage: if (uid) instead of if (uid !== undefined)
fmtMessageTruthy(type, data, uid) ==
  LET message == ObjSpread(<<<<"type", type>>>>, data)
  IN JsonStringify(IF Truthy(uid) THEN ObjSet(message, "uid", uid) ELSE message)

\* utils/message.ts fmtMessage(type, data = {}, uid?)
fmtMessage(type, data, uid) ==
  LET message == ObjSpread(<<<<"type", type>>>>, data)
  IN JsonStringify(IF uid # Undefined THEN ObjSet(message, "uid", uid) ELSE message)

\* ------------------------------------------------------------------ state
VARIABLES
  readyState,   \* per connection: "NEW" (not yet connected), "OPEN", "CLOSING", "CLOSED"
  clients,      \* controller.clients, the registry of the websocket controller
  pulse,        \* HeartbeatHandler.pulse: an interval handle or NoTimer (undefined)
  intervals,    \* handles of the repeating timers that are armed
  nextTimer,    \* next handle setInterval returns
  sweeps,       \* one record per pingClients call, in call order
  written,      \* per connection: the data client.send was given by the last handler
  bufferedAmount, \* SpecSend: client.bufferedAmount of the socket safeSend writes to
  sockState,    \* SpecSend: client.readyState of that socket
  send,         \* SpecSend: the safeSend call chain
  codec         \* SpecCodec: the arguments and the result of fmtMessage

hbVars == <<readyState, clients, pulse, intervals, nextTimer, sweeps, written>>
sendVars == <<bufferedAmount, sockState, send>>
codecVars == <<codec>>
vars == <<readyState, clients, pulse, intervals, nextTimer, sweeps, written,
          bufferedAmount, sockState, send, codec>>

NoTimer == 0
NoWrites == [c \in Conns |-> <<>>]

\* ------------------------------------------------------- inbound messages
MessageTypes == {Str_paddedPing, Str_pong}
MessageUids == {Str_empty, Str_42}

\* message objects an inbound frame parses to: with or without type and uid
Messages ==
  {<<<<"type", t>>>> : t \in MessageTypes}
    \cup {<<<<"type", Str_paddedPing>>, <<"uid", u>>>> : u \in MessageUids}

\* ------------------------------------------------------------- controller
\* the websocket controller adds an accepted connection to its clients
RegistryAdd(cl, c) == cl \cup {c}

\* the websocket controller deletes a closed connection from its clients
RegistryRemove(cl, c) == cl \ {c}

\* ------------------------------------------------------- HeartbeatHandler
\* variant of ShouldArm: the test of this.pulse is left out
ShouldArmAlways(hasClients, p) == hasClients

\* checkClients, first if: hasClients && !this.pulse
ShouldArm(hasClients, p) == hasClients /\ p = NoTimer

\* variant of ShouldClear: the test of this.pulse is inverted
ShouldClearUnset(hasClients, p) == ~hasClients /\ p = NoTimer

\* checkClients, second if: !hasClients && this.pulse
ShouldClear(hasClients, p) == ~hasClients /\ p # NoTimer

\* this.pulse after clearInterval(this.pulse)
PulseAfterClear(p) == NoTimer

\* checkClients() run against the registry cl with this.pulse = p, the armed
\* intervals iv and the next handle nt: the three after the call
CheckClientsResult(cl, p, iv, nt) ==
  LET hasClients == Cardinality(cl) > 0
      arm == ShouldArm(hasClients, p)
      pulse1 == IF arm THEN nt ELSE p
      intervals1 == IF arm THEN iv \cup {nt} ELSE iv
      clear == ShouldClear(hasClients, pulse1)
  IN [pulse |-> IF clear THEN PulseAfterClear(pulse1) ELSE pulse1,
      intervals |-> IF clear THEN intervals1 \ {pulse1} ELSE intervals1,
      nextTimer |-> IF arm THEN nt + 1 ELSE nt]

\* checkClients() run against the registry cl
CheckClients(cl) ==
  LET after == CheckClientsResult(cl, pulse, intervals, nextTimer)
  IN /\ pulse' = after.pulse
     /\ intervals' = after.intervals
     /\ nextTimer' = after.nextTimer

\* onMessage(client, message): the data written to client, in order
onMessage(message) ==
  IF trimUpper(ObjGet(message, "type")) # Str_PING THEN <<>>
  ELSE <<fmtMessage(Str_pong,
                    IF Truthy(ObjGet(message, "uid"))
                      THEN <<<<"uid", ObjGet(message, "uid")>>>>
                      ELSE EmptyObject,
                    Undefined)>>

\* what onMessage writes, for every inbound message
Replies == [m \in Messages |-> onMessage(m)]

\* pingClients: the sweep created by one tick over the registry cl.
\* snapshot, messaged, closed, closedAtFire, lateCloses and succeeded record
\* history: the registry at the tick, the snapshot connections whose message
\* was handled while the timeout was armed, the connections the timeout
\* called close() on, those of the snapshot that were CLOSED when it ran,
\* those it closed after the watcher's success branch, and whether that
\* branch (clearTimeout, offAction) has run.
NewSweep(cl) ==
  [snapshot |-> cl,
   pending |-> cl,
   active |-> {},
   timeout |-> "armed",
   subscribed |-> TRUE,
   messaged |-> {},
   closed |-> {},
   closedAtFire |-> {},
   lateCloses |-> {},
   succeeded |-> FALSE]

\* fmtMessage('ping')
PingText == fmtMessage(Str_ping, EmptyObject, Undefined)

\* pingClients: for (const client of pendingClients) client.send(fmtMessage('ping'))
PingWrites(cl) ==
  [c \in Conns |-> IF c \in cl THEN <<PingText>> ELSE <<>>]

\* variant of PendingAfterMessage: pendingClients.delete(client) is left out
PendingKept(s, c) == s.pending

\* messageWatcher: pendingClients after the event of client c
PendingAfterMessage(s, c) == IF c \notin s.active THEN s.pending \ {c} ELSE s.pending

\* variant of ActiveAfterMessage: activeClients.add(client) is left out
ActiveNotAdded(s, c) == s.active

\* messageWatcher: activeClients after the event of client c
ActiveAfterMessage(s, c) == IF c \notin s.active THEN s.active \cup {c} ELSE s.active

\* variant of TimeoutAfterClear: clearTimeout(timeout) is left out
TimeoutLeftArmed(t) == t

\* messageWatcher: the timer after clearTimeout(timeout)
TimeoutAfterClear(t) == IF t = "armed" THEN "cleared" ELSE t

\* messageWatcher of sweep s run on a websocket.message event of client c
MessageWatcher(s, c) ==
  LET pending1 == PendingAfterMessage(s, c)
      active1 == ActiveAfterMessage(s, c)
      done == Cardinality(pending1) = 0
  IN [s EXCEPT !.pending = pending1,
               !.active = active1,
               !.timeout = IF done THEN TimeoutAfterClear(s.timeout) ELSE s.timeout,
               !.subscribed = IF done THEN FALSE ELSE s.subscribed,
               !.succeeded = IF done THEN TRUE ELSE s.succeeded]

\* variant of TimeoutCloses: the callback loops over activeClients
TimeoutClosesActive(s) == s.active

\* the connections the timeout callback of sweep s calls close() on
TimeoutCloses(s) == s.pending

\* WebSocket.close(): an open socket starts closing, otherwise nothing happens
StateAfterClose(st) == IF st = "OPEN" THEN "CLOSING" ELSE st

\* ------------------------------------------------------------------- init
HbInit ==
  /\ readyState = [c \in Conns |-> "NEW"]
  /\ clients = {}
  /\ pulse = NoTimer
  /\ intervals = {}
  /\ nextTimer = 1
  /\ sweeps = <<>>
  /\ written = NoWrites

SendIdle ==
  [pc |-> "idle", outcome |-> "none", attempts |-> 0, checks |-> 0, fullChecks |-> 0,
   writes |-> 0, fullWrites |-> 0, depth |-> 0]

SendRest ==
  /\ bufferedAmount = 0
  /\ sockState = "OPEN"
  /\ send = SendIdle

CodecRest == codec = [phase |-> "none"]

Init == HbInit /\ SendRest /\ CodecRest

\* ---------------------------------------------------------------- actions
\* the controller adds the connection, then emits websocket.connect
Connect(c) ==
  /\ readyState[c] = "NEW"
  \* connections are numbered in the order they are accepted
  /\ \A d \in 1..(c - 1) : readyState[d] # "NEW"
  /\ readyState' = [readyState EXCEPT ![c] = "OPEN"]
  /\ clients' = RegistryAdd(clients, c)
  /\ CheckClients(clients')
  /\ written' = NoWrites
  /\ UNCHANGED <<sweeps, bufferedAmount, sockState, send, codec>>

\* the socket fails and starts closing: websocket.error is emitted, the
\* registry keeps the connection until its close
Error(c) ==
  /\ readyState[c] = "OPEN"
  /\ readyState' = [readyState EXCEPT ![c] = "CLOSING"]
  /\ clients' = clients
  /\ CheckClients(clients')
  /\ written' = NoWrites
  /\ UNCHANGED <<sweeps, bufferedAmount, sockState, send, codec>>

\* the socket is closed: the controller removes it, then emits websocket.close
Close(c) ==
  /\ readyState[c] \in {"OPEN", "CLOSING"}
  /\ readyState' = [readyState EXCEPT ![c] = "CLOSED"]
  /\ clients' = RegistryRemove(clients, c)
  /\ CheckClients(clients')
  /\ written' = NoWrites
  /\ UNCHANGED <<sweeps, bufferedAmount, sockState, send, codec>>

\* a sweep's timeout is outstanding
TimeoutArmed(k) == sweeps[k].timeout = "armed"

\* the interval h fires: pingClients()
Tick(h) ==
  /\ h \in intervals
  /\ Len(sweeps) < MaxSweeps
  \* timers of one delay run in the order they were armed: the timeout of a
  \* sweep is armed during its tick, before the interval is armed again
  /\ \A k \in 1..Len(sweeps) : ~TimeoutArmed(k)
  /\ sweeps' = Append(sweeps, NewSweep(clients))
  /\ written' = PingWrites(clients)
  /\ UNCHANGED <<readyState, clients, pulse, intervals, nextTimer,
                 bufferedAmount, sockState, send, codec>>

\* the timeout of sweep k fires: close the connections that have not responded
TimeoutFire(k) ==
  /\ k \in 1..Len(sweeps)
  /\ TimeoutArmed(k)
  /\ LET s == sweeps[k]
         closes == TimeoutCloses(s)
     IN /\ readyState' = [c \in Conns |->
                            IF c \in closes THEN StateAfterClose(readyState[c])
                            ELSE readyState[c]]
        /\ sweeps' = [sweeps EXCEPT ![k] =
                        [s EXCEPT !.timeout = "fired",
                                  !.closed = s.closed \cup closes,
                                  !.lateCloses = IF s.succeeded THEN closes ELSE {},
                                  !.closedAtFire =
                                     {c \in s.snapshot : readyState[c] = "CLOSED"}]]
  /\ written' = NoWrites
  /\ UNCHANGED <<clients, pulse, intervals, nextTimer,
                 bufferedAmount, sockState, send, codec>>

\* websocket.message of client c: onMessage, then every subscribed messageWatcher
Message(c, m) ==
  /\ readyState[c] \in {"OPEN", "CLOSING"}
  /\ written' = [NoWrites EXCEPT ![c] = Replies[m]]
  /\ sweeps' = [k \in 1..Len(sweeps) |->
                  LET s == sweeps[k]
                      seen == [s EXCEPT !.messaged =
                                 IF s.timeout = "armed" /\ c \in s.snapshot
                                   THEN s.messaged \cup {c}
                                   ELSE s.messaged]
                  IN IF s.subscribed THEN MessageWatcher(seen, c) ELSE seen]
  /\ UNCHANGED <<readyState, clients, pulse, intervals, nextTimer,
                 bufferedAmount, sockState, send, codec>>

Next ==
  \/ \E c \in Conns : Connect(c)
  \/ \E c \in Conns : Error(c)
  \/ \E c \in Conns : Close(c)
  \/ \E h \in 1..MaxConns : Tick(h)
  \/ \E k \in 1..MaxSweeps : TimeoutFire(k)
  \/ \E c \in Conns, m \in Messages : Message(c, m)

Spec == Init /\ [][Next]_vars

\* an armed timeout fires once its delay has passed
FairSpec == Spec /\ WF_vars(\E k \in 1..MaxSweeps : TimeoutFire(k))

\* --------------------------------------------------------------- safeSend
\* send.pc: "idle" (not called), "timer" (a retry is scheduled), "settling"
\* (the last attempt returned, promises of the chain are resolving),
\* "resolved" (the promise of the original call is resolved).
\* attempts, checks, fullChecks, writes, fullWrites and outcome record
\* history: calls of safeSend, evaluations of client.bufferedAmount > 0,
\* those that found it true, calls of client.send, those made with a
\* non-empty buffer, and how the chain ended.

\* variant of NotOpen: only a closed socket is skipped
OnlyClosed(st) == st = "CLOSED"

\* safeSend line 36: client.readyState !== client.OPEN
NotOpen(st) == st # "OPEN"

\* variant of MustWait: one buffered unit is let through
MustWaitAboveOne(buffered) == buffered > 1

\* safeSend line 37: client.bufferedAmount > 0
MustWait(buffered) == buffered > 0

\* a call of safeSend returned without scheduling a retry: its promise is
\* fulfilled, the promises of the callers follow one by one
Returned(sd, outcome) ==
  [sd EXCEPT !.outcome = outcome,
             !.pc = IF sd.depth = 0 THEN "resolved" ELSE "settling"]

\* one call of safeSend(client, data, delay)
Attempt ==
  LET sd == [send EXCEPT !.attempts = send.attempts + 1] IN
  IF NotOpen(sockState)
    THEN /\ send' = Returned(sd, "dropped")
         /\ UNCHANGED bufferedAmount
  ELSE IF MustWait(bufferedAmount)
    THEN /\ send' = [sd EXCEPT !.checks = sd.checks + 1,
                               !.fullChecks = sd.fullChecks + 1,
                               !.depth = sd.depth + 1,
                               !.pc = "timer"]
         /\ UNCHANGED bufferedAmount
  ELSE /\ send' = Returned([sd EXCEPT !.checks = sd.checks + 1,
                                      !.writes = sd.writes + 1,
                                      !.fullWrites = sd.fullWrites
                                         + (IF bufferedAmount > 0 THEN 1 ELSE 0)],
                           "written")
       \* client.send(data): the data is flushed at once or stays buffered
       /\ \E queued \in {0, 1} : bufferedAmount' = bufferedAmount + queued

SendInit ==
  /\ bufferedAmount \in 0..MaxBuffer
  /\ sockState \in {"OPEN", "CLOSING", "CLOSED"}
  /\ send = SendIdle

\* the caller invokes safeSend
CallSafeSend ==
  /\ send.pc = "idle"
  /\ Attempt
  /\ UNCHANGED <<sockState, codec, readyState, clients, pulse, intervals,
                 nextTimer, sweeps, written>>

\* the retry timer fires after delay: safeSend(client, data, delay)
RetryFire ==
  /\ send.pc = "timer"
  /\ send.attempts <= MaxPolls
  /\ Attempt
  /\ UNCHANGED <<sockState, codec, readyState, clients, pulse, intervals,
                 nextTimer, sweeps, written>>

\* .finally(() => resolve(null)): the promise of the enclosing call resolves
Settle ==
  /\ send.pc = "settling"
  /\ send' = [send EXCEPT !.depth = send.depth - 1,
                          !.pc = IF send.depth - 1 = 0 THEN "resolved" ELSE "settling"]
  /\ UNCHANGED <<bufferedAmount, sockState, codec, readyState, clients, pulse,
                 intervals, nextTimer, sweeps, written>>

\* the transport flushes part of the outbound buffer
Drain ==
  /\ bufferedAmount > 0
  /\ bufferedAmount' = bufferedAmount - 1
  /\ UNCHANGED <<sockState, send, codec, readyState, clients, pulse, intervals,
                 nextTimer, sweeps, written>>

\* another writer queues data on the socket
Fill ==
  /\ sockState = "OPEN"
  /\ bufferedAmount < MaxBuffer
  /\ bufferedAmount' = bufferedAmount + 1
  /\ UNCHANGED <<sockState, send, codec, readyState, clients, pulse, intervals,
                 nextTimer, sweeps, written>>

\* the socket leaves the OPEN state, later it is closed
SockClose ==
  /\ sockState \in {"OPEN", "CLOSING"}
  /\ sockState' = IF sockState = "OPEN" THEN "CLOSING" ELSE "CLOSED"
  /\ UNCHANGED <<bufferedAmount, send, codec, readyState, clients, pulse, intervals,
                 nextTimer, sweeps, written>>

SendNext ==
  \/ CallSafeSend
  \/ RetryFire
  \/ Settle
  \/ Drain
  \/ Fill
  \/ SockClose

InitSend == HbInit /\ SendInit /\ CodecRest

SpecSend == InitSend /\ [][SendNext]_vars

\* timers fire and promise reactions run
FairSpecSend == SpecSend /\ WF_vars(RetryFire) /\ WF_vars(Settle)

\* ------------------------------------------------------------- fmtMessage
CodecTypes == {Str_ping, Str_pong, Str_pings}
CodecUids == {Undefined, Str_empty, Str_abc}
CodecData ==
  {EmptyObject,
   <<<<"uid", Str_42>>>>,
   <<<<"uid", Undefined>>>>,
   <<<<"status", Str_abc>>>>,
   <<<<"type", Str_PING>>>>,
   <<<<"status", Str_abc>>, <<"type", Str_PING>>, <<"uid", Str_42>>>>}

CodecInit ==
  \E t \in CodecTypes, d \in CodecData, u \in CodecUids :
    codec = [phase |-> "args", type |-> t, data |-> d, uid |-> u]

\* fmtMessage(type, data, uid)
Encode ==
  /\ codec.phase = "args"
  /\ codec' = [phase |-> "encoded", type |-> codec.type, data |-> codec.data,
               uid |-> codec.uid,
               text |-> fmtMessage(codec.type, codec.data, codec.uid)]
  /\ UNCHANGED <<hbVars, sendVars>>

\* the receiver decodes the text: JSON.parse
Decode ==
  /\ codec.phase = "encoded"
  /\ codec' = [phase |-> "decoded", type |-> codec.type, data |-> codec.data,
               uid |-> codec.uid, text |-> codec.text,
               object |-> JsonParse(codec.text)]
  /\ UNCHANGED <<hbVars, sendVars>>

CodecNext == Encode \/ Decode

InitCodec == HbInit /\ SendRest /\ CodecInit

SpecCodec == InitCodec /\ [][CodecNext]_vars

\* ----------------------------------------------------------------- claims
SweepIds == 1..Len(sweeps)

\* two decoded objects have the same properties with the same values
ObjEq(a, b) ==
  /\ ObjKeys(a) = ObjKeys(b)
  /\ \A key \in ObjKeys(a) : ObjGet(a, key) = ObjGet(b, key)

\* C1: a HeartbeatHandler has at most one armed repeating timer: every armed
\* interval is the one pulse references (none is armed while pulse is set),
\* and pulse never references an interval that has been cleared.
C1_SingleInterval ==
  /\ Cardinality(intervals) <= 1
  /\ intervals \subseteq {pulse}
  /\ pulse # NoTimer => pulse \in intervals

\* the controller went idle and was armed again: the second interval is the only one
C1_Witness == pulse = 2 /\ intervals = {2} /\ sweeps # <<>>

\* C2: once checkClients has handled a connect, error or close event, the
\* repeating timer is armed if and only if the registry is non-empty.
C2_TimerIffClients == (intervals # {}) <=> (clients # {})

\* the registry emptied after the timer had been armed, and the timer is gone
C2_Witness == clients = {} /\ intervals = {} /\ nextTimer > 1

\* C3: a connection of a sweep's snapshot whose websocket.message event was
\* handled before the sweep's timeout callback ran is not closed by that sweep.
C3_MessagedNotClosed ==
  \A k \in SweepIds : sweeps[k].messaged \cap sweeps[k].closed = {}

\* a sweep's timeout fired: one connection had sent a message, another was closed
C3_Witness ==
  \E k \in SweepIds :
    /\ sweeps[k].timeout = "fired"
    /\ sweeps[k].messaged # {}
    /\ sweeps[k].closed # {}

\* C4: a snapshot connection that sent no message before the sweep's timeout
\* has close() called on it by that timeout, and no other sweep calls close()
\* on a connection a sweep has closed already.
C4_ClosedExactlyOnce ==
  /\ \A k \in SweepIds :
       sweeps[k].timeout = "fired" =>
         sweeps[k].closed = sweeps[k].snapshot \ sweeps[k].messaged
  /\ \A c \in Conns : Cardinality({k \in SweepIds : c \in sweeps[k].closed}) <= 1

\* C5: once the pending set of a sweep is empty and its messageWatcher has run
\* clearTimeout, the timeout is not armed any more and its callback calls
\* close() on no connection afterwards.
C5_NoCloseAfterClear ==
  \A k \in SweepIds :
    (sweeps[k].pending = {} /\ sweeps[k].succeeded) =>
      /\ sweeps[k].timeout # "armed"
      /\ sweeps[k].lateCloses = {}

\* a sweep was cancelled by its watcher and a later sweep has started since
C5_Witness ==
  \E k \in SweepIds :
    /\ sweeps[k].timeout = "cleared"
    /\ sweeps[k].pending = {}
    /\ sweeps[k].closed = {}
    /\ Len(sweeps) > k

\* C6: safeSend never calls client.send while client.bufferedAmount > 0, it
\* writes at most once, and when it has written it has checked the buffer N
\* times, N being the number of polls up to and including the first one that
\* found the buffer empty.
C6_NoWriteWhileBuffered ==
  /\ send.fullWrites = 0
  /\ send.writes <= 1
  /\ send.outcome = "written" =>
       /\ send.writes = 1
       /\ send.checks = send.fullChecks + 1
       /\ send.attempts = send.checks
  /\ send.outcome # "written" => send.writes = 0

\* the buffer was found full twice, empty at the third poll, and the write was made
C6_Witness ==
  /\ send.outcome = "written"
  /\ send.fullChecks = 2
  /\ send.checks = 3
  /\ send.pc = "resolved"

\* C7: while the socket is OPEN and its buffer is not empty every call of
\* safeSend schedules a retry; the first call made after the socket has left
\* OPEN writes nothing and schedules no retry, and the promise of the
\* original call is then resolved.
C7_RetryUntilNotOpen ==
  /\ [][send'.attempts # send.attempts =>
          IF sockState # "OPEN"
            THEN /\ send'.writes = send.writes
                 /\ send'.outcome = "dropped"
                 /\ send'.pc \in {"settling", "resolved"}
                 /\ send'.depth = send.depth
          ELSE IF bufferedAmount > 0
            THEN /\ send'.pc = "timer"
                 /\ send'.writes = send.writes
                 /\ send'.depth = send.depth + 1
          ELSE TRUE]_vars
  /\ [](send.outcome = "dropped" => send.writes = 0 /\ send.pc # "timer")
  /\ (send.outcome = "dropped") ~> (send.pc = "resolved")

\* the buffer never drained, the socket closed after two retries, the chain resolved
C7_Witness ==
  /\ send.outcome = "dropped"
  /\ send.fullChecks >= 2
  /\ send.checks = send.fullChecks
  /\ send.pc = "resolved"

\* C8: on a websocket.message event onMessage writes one pong to the sender
\* if and only if the trimmed, upper-cased type is PING; the pong has the uid
\* of the message when the message has a uid property, and no uid otherwise.
C8_PongEchoesUid ==
  [][\A c \in Conns, m \in Messages :
       Message(c, m) =>
         IF trimUpper(ObjGet(m, "type")) = Str_PING
           THEN /\ Len(written'[c]) = 1
                /\ ObjEq(JsonParse(written'[c][1]),
                         IF "uid" \in ObjKeys(m)
                           THEN <<<<"type", Str_pong>>, <<"uid", ObjGet(m, "uid")>>>>
                           ELSE <<<<"type", Str_pong>>>>)
           ELSE written'[c] = <<>>]_vars

\* C9: with empty data, the text fmtMessage returns decodes to exactly
\* {type, uid} when a uid argument is supplied (any string, the empty one
\* included) and to exactly {type}, without uid property, when none is.
C9_UidIffSupplied ==
  (codec.phase = "decoded" /\ codec.data = EmptyObject) =>
    ObjEq(codec.object,
          IF codec.uid # Undefined
            THEN <<<<"type", codec.type>>, <<"uid", codec.uid>>>>
            ELSE <<<<"type", codec.type>>>>)

\* fmtMessage("pong", {}, "abc") has been encoded and decoded
C9_Witness ==
  /\ codec.phase = "decoded"
  /\ codec.type = Str_pong
  /\ codec.data = EmptyObject
  /\ codec.uid = Str_abc
  /\ ObjKeys(codec.object) = {"type", "uid"}

\* C10: when every connection of a sweep's snapshot was closed, without
\* having sent a message, by the time the sweep's timeout runs, the timeout
\* calls close() on none of them.
C10_NoCloseOfClosed ==
  \A k \in SweepIds :
    (/\ sweeps[k].timeout = "fired"
     /\ sweeps[k].messaged = {}
     /\ sweeps[k].closedAtFire = sweeps[k].snapshot)
      => sweeps[k].closed \cap sweeps[k].closedAtFire = {}

\* the message is a ping for onMessage: isPing(message.type)
IsPingMessage(m) == trimUpper(ObjGet(m, "type")) = Str_PING

\* the writes are exactly one pong envelope
IsOnePong(w) == Len(w) = 1 /\ ObjGet(JsonParse(w[1]), "type") = Str_pong

\* C11 as stated: a ping received while a sweep is in progress is answered
\* with a pong and changes the pending and active sets of no sweep in progress.
C11_PingLeavesSweeps ==
  [][\A c \in Conns, m \in Messages :
       (Message(c, m) /\ IsPingMessage(m)) =>
         /\ IsOnePong(written'[c])
         /\ \A k \in SweepIds :
              sweeps[k].timeout = "armed" =>
                /\ sweeps'[k].pending = sweeps[k].pending
                /\ sweeps'[k].active = sweeps[k].active]_vars

\* C11 amended: a ping is answered with a pong and, as any message, moves its
\* sender (and no other connection) from pending to active in every sweep
\* whose messageWatcher is subscribed; the other sweeps keep their sets.
C11_PingMovesOnlySender ==
  [][\A c \in Conns, m \in Messages :
       (Message(c, m) /\ IsPingMessage(m)) =>
         /\ IsOnePong(written'[c])
         /\ \A k \in SweepIds :
              IF sweeps[k].subscribed
                THEN /\ sweeps'[k].pending = sweeps[k].pending \ {c}
                     /\ sweeps'[k].active = sweeps[k].active \cup {c}
                ELSE /\ sweeps'[k].pending = sweeps[k].pending
                     /\ sweeps'[k].active = sweeps[k].active]_vars

\* a ping was answered during a sweep: its sender is active, another connection pends
C11_Witness ==
  \E c \in Conns, k \in SweepIds :
    /\ IsOnePong(written[c])
    /\ sweeps[k].timeout = "armed"
    /\ c \in sweeps[k].snapshot
    /\ c \in sweeps[k].active
    /\ sweeps[k].pending # {}

\* C12: a sweep that has ended, by its pending set emptying or by its timeout
\* firing and closing the pending connections, has no messageWatcher
\* subscribed to websocket.message any more.
C12_EndedUnsubscribed ==
  \A k \in SweepIds : sweeps[k].timeout # "armed" => ~sweeps[k].subscribed

\* C13: pingClients performs no write on a snapshot connection that is not
\* OPEN (the first thing the backpressure sender checks before it writes).
C13_PingOnlyOpen ==
  \A c \in Conns : written[c] = <<PingText>> => readyState[c] = "OPEN"

\* C14: no sweep runs both termination paths: the timeout callback closing
\* the pending connections and the watcher's branch that clears the timeout
\* and unsubscribes.
C14_OnePath ==
  \A k \in SweepIds : ~(sweeps[k].timeout = "fired" /\ sweeps[k].succeeded)

\* C15: while the controller is idle after having been active (pulse reset),
\* no interval is armed, so no tick can run pingClients, and no timeout a
\* sweep armed before the transition is still armed.
C15_IdleNoTimers ==
  (pulse = NoTimer /\ nextTimer > 1) =>
    /\ intervals = {}
    /\ \A k \in SweepIds : sweeps[k].timeout # "armed"

\* C16: checkClients is idempotent: in every state, a second call made right
\* after a first one with the registry unchanged leaves pulse and the armed
\* timers as the first call left them (it arms and clears nothing).
C16_CheckClientsIdempotent ==
  LET once == CheckClientsResult(clients, pulse, intervals, nextTimer)
      twice == CheckClientsResult(clients, once.pulse, once.intervals, once.nextTimer)
  IN /\ twice = once
     /\ once.pulse = pulse
     /\ once.intervals = intervals
     /\ once.nextTimer = nextTimer

\* websocket.error ran checkClients again on an unchanged, non-empty registry
C16_Witness ==
  \E c \in Conns :
    /\ readyState[c] = "CLOSING"
    /\ \A k \in SweepIds : c \notin sweeps[k].closed
    /\ c \in clients
    /\ pulse # NoTimer
    /\ intervals = {pulse}

\* the inbound messages whose type is a ping written with padding and mixed case
PaddedPings == {m \in Messages : ObjGet(m, "type") = Str_paddedPing}

C18_TypeAndUidArguments ==
  codec.phase = "decoded" =>
    /\ ObjGet(codec.object, "type") = codec.type
    /\ codec.uid # Undefined => ObjGet(codec.object, "uid") = codec.uid

\* C19: in every sweep pending and active are disjoint, pending is a subset
\* of the snapshot and every snapshot connection is in pending or in active;
\* no step adds a connection to pending or removes one from active, and a
\* message leaves its sender in active.
C19_PendingActivePartition ==
  /\ [](\A k \in SweepIds :
          /\ sweeps[k].pending \cap sweeps[k].active = {}
          /\ sweeps[k].pending \subseteq sweeps[k].snapshot
          /\ sweeps[k].snapshot \subseteq sweeps[k].pending \cup sweeps[k].active)
  /\ [][\A k \in SweepIds :
          /\ sweeps'[k].pending \subseteq sweeps[k].pending
          /\ sweeps[k].active \subseteq sweeps'[k].active
          /\ \A c \in Conns, m \in Messages :
               (Message(c, m) /\ sweeps[k].subscribed) =>
                 (c \in sweeps'[k].active /\ c \notin sweeps'[k].pending)]_vars

\* a sweep with one connection moved to active and another still pending
C19_Witness ==
  \E k \in SweepIds :
    /\ sweeps[k].active \cap sweeps[k].snapshot # {}
    /\ sweeps[k].pending # {}
    /\ sweeps[k].timeout = "armed"

\* C20: when armed timeouts eventually fire, every sweep eventually ends (its
\* timeout is cleared or has fired) with every connection of its snapshot
\* either in the active set or closed by the sweep's timeout.
C20_SweepsEnd ==
  \A k \in 1..MaxSweeps :
    (Len(sweeps) >= k) ~>
      (/\ k \in SweepIds
       /\ sweeps[k].timeout # "armed"
       /\ \A c \in sweeps[k].snapshot :
            c \in sweeps[k].active \/ c \in sweeps[k].closed)

\* one sweep ended by its timeout closing a connection, another by its watcher
C20_Witness ==
  \E j \in SweepIds, k \in SweepIds :
    /\ sweeps[j].timeout = "cleared"
    /\ sweeps[j].snapshot \subseteq sweeps[j].active
    /\ sweeps[k].timeout = "fired"
    /\ sweeps[k].closed # {}

====
